---- MODULE Spec2Model ----
(***************************************************************************)
(* InfraKit: the onboarding orchestrator of src/cli/main.py with its       *)
(* collaborators (src/cli/redis_manager.py, src/cli/db-manager.py,         *)
(* src/cli/argocd-manager.py) and the earlier draft of the same tool,      *)
(* src/cli.py, which shares the Record Store and the Delivery Controller.  *)
(*                                                                         *)
(* Every invocation of the tool is one process.  A step of a process is    *)
(* one call to an external collaborator (Redis, PostgreSQL, the ArgoCD     *)
(* API, the Go service) together with the local Python code that follows   *)
(* it up to the next such call.  The outcome of an external call (answer   *)
(* or fault) is the environment's choice.  Redis expiry (the `ex` of SET   *)
(* and the ttl of SETEX) is an environment step: no call of the code has   *)
(* a timeout, so an entry may expire between any two steps.                *)
(*                                                                         *)
(* Strings built with f-strings are modelled as sequences of fragments,    *)
(* so that two keys are equal exactly when the formatted strings are.      *)
(***************************************************************************)
EXTENDS Integers, Sequences, FiniteSets, TLC

\* Number of invocations of the tool (processes), each run once.
NumProcs == 2

Procs == 1..NumProcs

\* Application names and clusters given on the command line.
Names == {"svc-a", "svc-b"}
Clusters == {"prod"}

\* The clusters given to the orchestrator's onboard.  Its cluster is read
\* at main.py:93, 102 and 111 only, which follow the call of line 91; one
\* value stands for all of them.
OnboardClusters == {"prod"}

\* What sync is given as its name: the command line reaches it through
\* main() (main.py:178-179, 183), which hands it the argparse.Namespace.
SyncCallers == {"Namespace"}

\* The error texts the validate-k8s command may answer with.
ValidationErrors == {"bad values"}

\* argparse defaults and the remaining (fixed) command-line values.
OptNamespace == "default"
OptRevision == "main"
OptChart == "charts/svc"
OptRepo == "git@infra.git"
OptPath == "apps/svc"

----------------------------------------------------------------------------
\* Python values

\* No exception in flight.
NoErr == [type |-> "none", msg |-> <<>>]

Exc(type, msg) == [type |-> type, msg |-> msg]

\* str(x) of the value a handler receives as its name: a str formats as
\* itself, an argparse.Namespace as its repr.
Str(x) ==
    IF x.kind = "str"
    THEN <<x.name>>
    ELSE <<"Namespace(command='", x.command, "', name='", x.name, "')">>

StrArg(n) == [kind |-> "str", command |-> "", name |-> n]
NamespaceArg(c, n) == [kind |-> "Namespace", command |-> c, name |-> n]

\* json.dumps / json.loads of a dict of strings.
JsonDumps(d) == <<"json", d>>
JsonLoads(s) == s[2]

\* Truth value of a dict: empty is false.
Truthy(d) == DOMAIN d # {}

\* Python raises TypeError when a call passes a keyword the function does
\* not declare (naming the first such keyword of the call), and
\* AttributeError when the object has no such method.
BindsKeywords(params, keywords) ==
    \A i \in 1..Len(keywords) : keywords[i] \in params
FirstUnexpected(params, keywords) ==
    keywords[CHOOSE i \in 1..Len(keywords) :
                /\ keywords[i] \notin params
                /\ \A j \in 1..(i - 1) : keywords[j] \in params]
HasMethod(methods, m) == m \in methods

----------------------------------------------------------------------------
\* Redis (redis_manager.py)

\* Default ttl of acquire_lock and of cache_application_state, in seconds.
LockTtl == 30
StateTtl == 3600

LockKey(lock_name) == <<"lock:">> \o lock_name
StateKey(app_name) == <<"app:">> \o Str(app_name) \o <<":state">>

\* f"onboard:{args.name}"
OnboardLockName(n) == <<"onboard:">> \o Str(StrArg(n))

\* Mutant: SET without NX, which succeeds on a held key too.
acquire_lock_without_nx(lk, lock_name) == TRUE

\* Mutant: SET with XX, which succeeds on a held key only.
acquire_lock_xx(lk, lock_name) == LockKey(lock_name) \in DOMAIN lk

\* SET key "1" NX EX ttl: true iff the key was absent.
acquire_lock(lk, lock_name) == LockKey(lock_name) \notin DOMAIN lk

\* The lock entries after acquire_lock: the key holds its ttl.
LocksAfterAcquire(lk, lock_name, ttl) ==
    IF acquire_lock(lk, lock_name)
    THEN [k \in DOMAIN lk \cup {LockKey(lock_name)} |->
            IF k = LockKey(lock_name) THEN ttl ELSE lk[k]]
    ELSE lk

\* Mutant: DEL of the lock name without its "lock:" prefix.
release_lock_unprefixed(lk, lock_name) ==
    [k \in DOMAIN lk \ {lock_name} |-> lk[k]]

\* DEL key: unconditional, whoever set the key.
release_lock(lk, lock_name) ==
    [k \in DOMAIN lk \ {LockKey(lock_name)} |-> lk[k]]

\* SETEX app:<name>:state ttl json: replaces the whole value.
cache_application_state(c, app_name, state) ==
    [k \in DOMAIN c \cup {StateKey(app_name)} |->
        IF k = StateKey(app_name) THEN JsonDumps(state) ELSE c[k]]

\* GET app:<name>:state: the decoded dict, or None (modelled as the empty
\* dict's absence: Hit tells which).
CacheHit(c, app_name) == StateKey(app_name) \in DOMAIN c
get_cached_state(c, app_name) == JsonLoads(c[StateKey(app_name)])

----------------------------------------------------------------------------
VARIABLES
    pc,        \* position of each invocation
    args,      \* its parsed command line
    validation, \* onboard's local `validation`: <<>> until validate-k8s answers
    err,       \* the exception in flight in it
    result,    \* how it ended and what it returned
    calls,     \* history: the external calls it has issued, in order
    locks,     \* Redis keys lock:*, each with the ttl it was set with
    cache,     \* Redis keys app:*:state, each with its JSON value
    writer,    \* history: the invocation that wrote each cached value
    setter,    \* history: the invocation that set each lock key
    lapsed,    \* history: lock keys that expired while their setter ran
    db,        \* rows of the table applications
    clock,     \* NOW() of the database, advanced by every statement
    argocd     \* application manifests the ArgoCD API has received

vars == <<pc, args, validation, err, result, calls, locks, cache, writer,
          setter, lapsed, db, clock, argocd>>

NoArgs == [command |-> "none", kind |-> "str", name |-> "", cluster |-> ""]
NoResult == [outcome |-> "running", value |-> <<>>, log |-> <<>>, exit |-> -1]

Init ==
    /\ pc = [p \in Procs |-> "idle"]
    /\ args = [p \in Procs |-> NoArgs]
    /\ validation = [p \in Procs |-> <<>>]
    /\ err = [p \in Procs |-> NoErr]
    /\ result = [p \in Procs |-> NoResult]
    /\ calls = [p \in Procs |-> <<>>]
    /\ locks = <<>>
    /\ cache = <<>>
    /\ writer = <<>>
    /\ setter = <<>>
    /\ lapsed = {}
    /\ db = {}
    /\ clock = 0
    /\ argocd = <<>>

----------------------------------------------------------------------------
\* main(): argparse, then args.func(args)

\* An invocation has ended: main() exits 1 when the handler raised, and 0
\* when it returned, whatever it returned (main.py:182-188).  `value` is
\* <<>> for None and <<d>> for a dict d; `log` is the last message the
\* handler logged at error level.
Ended(outcome, value, log) ==
    [outcome |-> outcome, value |-> value, log |-> log,
     exit |-> IF outcome = "raised" THEN 1 ELSE 0]

Call(p, c) == calls' = [calls EXCEPT ![p] = Append(@, c)]

\* History of the lock keys: the invocation whose SET NX created the key,
\* forgotten when the key is deleted or expires.
SetBy(p, lock_name) ==
    setter' = [k \in DOMAIN locks' |->
                 IF k = LockKey(lock_name) /\ acquire_lock(locks, lock_name)
                 THEN p ELSE setter[k]]

Dropped == setter' = [k \in DOMAIN locks' |-> setter[k]]

\* The command line of one invocation.  `kind` tells what the handler is
\* given as its name: main() hands every handler the argparse.Namespace
\* (main.py:183); status(name: str) and sync(name: str) are declared to
\* take the name itself, which is what a caller of the method passes.
Start(p) ==
    /\ pc[p] = "idle"
    /\ \E n \in Names :
         \/ \E c \in OnboardClusters :
              /\ args' = [args EXCEPT ![p] =
                    [command |-> "onboard", kind |-> "str", name |-> n,
                     cluster |-> c]]
              /\ pc' = [pc EXCEPT ![p] = "acquire"]
         \/ \E c \in Clusters :
              /\ args' = [args EXCEPT ![p] =
                    [command |-> "onboard_application", kind |-> "str",
                     name |-> n, cluster |-> c]]
              /\ pc' = [pc EXCEPT ![p] = "store"]
         \/ \E k \in {"str", "Namespace"} :
              /\ args' = [args EXCEPT ![p] =
                    [command |-> "status", kind |-> k, name |-> n,
                     cluster |-> ""]]
              /\ pc' = [pc EXCEPT ![p] = "get_cache"]
         \/ \E k \in SyncCallers :
              /\ args' = [args EXCEPT ![p] =
                    [command |-> "sync", kind |-> k, name |-> n,
                     cluster |-> ""]]
              /\ pc' = [pc EXCEPT ![p] = "sync_acquire"]
    /\ UNCHANGED <<validation, err, result, calls, locks, cache, writer,
                   setter, lapsed, db, clock, argocd>>

----------------------------------------------------------------------------
\* InfraKitCLI.onboard (main.py:63-125)

\* The invocation holds the onboarding lock it acquired: it is inside the
\* try block, or in its except or finally clause before the release.
InFlight(p) ==
    /\ args[p].command = "onboard"
    /\ pc[p] \in {"generate", "validate", "db", "argocd", "publish",
                  "except", "finally"}

InProgressLog(n) == <<"Onboarding already in progress for ", n>>

\* Mutant: the refused invocation logs the error and goes on (no return).
OnboardAcquireNoReturn(p) ==
    /\ pc[p] = "acquire"
    /\ LET lock_key == OnboardLockName(args[p].name) IN
         /\ locks' = LocksAfterAcquire(locks, lock_key, LockTtl)
         /\ SetBy(p, lock_key)
         /\ Call(p, "redis.set_nx")
         /\ pc' = [pc EXCEPT ![p] = "generate"]
         /\ UNCHANGED result
    /\ UNCHANGED <<validation, args, err, cache, writer, lapsed, db, clock, argocd>>

\* Mutant: the acquire sits inside the try block and the refusal raises, so
\* the refused invocation runs the except and finally clauses.
OnboardAcquireInsideTry(p) ==
    /\ pc[p] = "acquire"
    /\ LET lock_key == OnboardLockName(args[p].name) IN
         /\ locks' = LocksAfterAcquire(locks, lock_key, LockTtl)
         /\ SetBy(p, lock_key)
         /\ Call(p, "redis.set_nx")
         /\ IF acquire_lock(locks, lock_key)
            THEN /\ pc' = [pc EXCEPT ![p] = "generate"]
                 /\ UNCHANGED err
            ELSE /\ pc' = [pc EXCEPT ![p] = "except"]
                 /\ err' = [err EXCEPT ![p] =
                        Exc("RuntimeError", InProgressLog(args[p].name))]
    /\ UNCHANGED <<validation, args, result, cache, writer, lapsed, db, clock, argocd>>

\* main.py:65-69
OnboardAcquire(p) ==
    /\ pc[p] = "acquire"
    /\ LET lock_key == OnboardLockName(args[p].name) IN
         /\ locks' = LocksAfterAcquire(locks, lock_key, LockTtl)
         /\ SetBy(p, lock_key)
         /\ Call(p, "redis.set_nx")
         /\ IF acquire_lock(locks, lock_key)
            THEN /\ pc' = [pc EXCEPT ![p] = "generate"]
                 /\ UNCHANGED result
            ELSE /\ pc' = [pc EXCEPT ![p] = "done"]
                 /\ result' = [result EXCEPT ![p] =
                        Ended("returned", <<>>, InProgressLog(args[p].name))]
    /\ UNCHANGED <<validation, args, err, cache, writer, lapsed, db, clock, argocd>>

\* subprocess.CalledProcessError of _call_go_service (main.py:56-58)
GoServiceError(command) ==
    Exc("CalledProcessError", <<"Command '", command, "' returned non-zero exit status 1.">>)

\* main.py:75-79.  The failing branch stands for every exception raised
\* between the call of generate-helm and the call of validate-k8s (a failed
\* process, an unparsable answer, an answer without 'manifest'): all of
\* them reach the except clause the same way.
OnboardGenerate(p) ==
    /\ pc[p] = "generate"
    /\ Call(p, "go.generate-helm")
    /\ \/ /\ pc' = [pc EXCEPT ![p] = "validate"]
          /\ UNCHANGED err
       \/ /\ err' = [err EXCEPT ![p] = GoServiceError("generate-helm")]
          /\ pc' = [pc EXCEPT ![p] = "except"]
    /\ UNCHANGED <<validation, args, result, locks, cache, writer, setter, lapsed, db, clock,
                   argocd>>

\* The answers of validate-k8s: valid, or not valid with or without an
\* error text.
ValidationAnswers ==
    {[valid |-> TRUE, error |-> <<>>], [valid |-> FALSE, error |-> <<>>]}
    \cup {[valid |-> FALSE, error |-> <<e>>] : e \in ValidationErrors}

\* validation.get('error') formatted into the f-string: None when absent.
GetError(answer) ==
    IF answer.error = <<>> THEN "None" ELSE answer.error[1]

ValidationFailed(answer) ==
    Exc("ValueError", <<"Manifest validation failed: ", GetError(answer)>>)

\* main.py:82-88
OnboardValidate(p) ==
    /\ pc[p] = "validate"
    /\ Call(p, "go.validate-k8s")
    /\ \/ \E answer \in ValidationAnswers :
            /\ validation' = [validation EXCEPT ![p] = <<answer>>]
            /\ IF answer.valid
               THEN /\ pc' = [pc EXCEPT ![p] = "db"]
                    /\ UNCHANGED err
               ELSE /\ err' = [err EXCEPT ![p] = ValidationFailed(answer)]
                    /\ pc' = [pc EXCEPT ![p] = "except"]
       \/ /\ err' = [err EXCEPT ![p] = GoServiceError("validate-k8s")]
          /\ pc' = [pc EXCEPT ![p] = "except"]
          /\ UNCHANGED validation
    /\ UNCHANGED <<args, result, locks, cache, writer, setter, lapsed, db, clock,
                   argocd>>

\* Signatures of the collaborators, and the keywords onboard passes.
DBManagerCreateParams == {"name", "cluster", "chart"}
ArgoCDManagerCreateParams == {"name", "cluster"}
OnboardDbKeywords == <<"name", "cluster", "namespace", "chart", "repo">>
OnboardArgoKeywords == <<"name", "cluster", "repo", "path", "revision">>

UnexpectedKeyword(f, params, keywords) ==
    Exc("TypeError",
        <<f, "() got an unexpected keyword argument '",
          FirstUnexpected(params, keywords), "'">>)

\* DBManager.create_application: INSERT of three columns, no ON CONFLICT.
\* The row it adds; the other columns stay NULL.
DBManagerRow(name, cluster, chart, now) ==
    [name |-> name, cluster |-> cluster, namespace |-> "NULL",
     helm_chart |-> chart, git_repo |-> "NULL", git_revision |-> "NULL",
     git_path |-> "NULL", updated_at |-> now]

\* ArgoCDManager.create_application: the manifest it posts.
ArgoCDManagerManifest(name, cluster) ==
    [name |-> name, server |-> <<"https://", cluster, ".example.com">>,
     namespace |-> "default", path |-> "", automated |-> FALSE]

ActiveSnapshot(cluster) ==
    [status |-> "active", cluster |-> cluster, last_operation |-> "onboard"]

\* Mutant: a fixed text instead of str(e).
FailedSnapshotGeneric(e) == [status |-> "failed", error |-> <<"system fault">>]

FailedSnapshot(e) == [status |-> "failed", error |-> e.msg]

\* main.py:90-115: the Record Store, the Delivery Controller, the active
\* snapshot.  The calls of lines 91 and 100 pass keywords the managers do
\* not declare.
OnboardPersist(p) ==
    /\ pc[p] \in {"db", "argocd", "publish"}
    /\ LET a == args[p] IN
       CASE pc[p] = "db" ->
              IF BindsKeywords(DBManagerCreateParams, OnboardDbKeywords)
              THEN /\ Call(p, "db.insert")
                   /\ clock' = clock + 1
                   /\ IF \E r \in db : r.name = a.name
                      THEN /\ err' = [err EXCEPT ![p] =
                                Exc("UniqueViolation", <<"duplicate key ", a.name>>)]
                           /\ pc' = [pc EXCEPT ![p] = "except"]
                           /\ UNCHANGED db
                      ELSE /\ db' = db \cup
                                {DBManagerRow(a.name, a.cluster, OptChart, clock + 1)}
                           /\ pc' = [pc EXCEPT ![p] = "argocd"]
                           /\ UNCHANGED err
                   /\ UNCHANGED <<cache, writer, argocd>>
              ELSE /\ err' = [err EXCEPT ![p] =
                        UnexpectedKeyword("DBManager.create_application",
                            DBManagerCreateParams, OnboardDbKeywords)]
                   /\ pc' = [pc EXCEPT ![p] = "except"]
                   /\ UNCHANGED <<calls, db, clock, cache, writer, argocd>>
         [] pc[p] = "argocd" ->
              IF BindsKeywords(ArgoCDManagerCreateParams, OnboardArgoKeywords)
              THEN /\ Call(p, "argocd.post")
                   /\ argocd' = Append(argocd, ArgoCDManagerManifest(a.name, a.cluster))
                   /\ \/ /\ pc' = [pc EXCEPT ![p] = "publish"]
                         /\ UNCHANGED err
                      \/ /\ err' = [err EXCEPT ![p] = Exc("HTTPError", <<"500 Server Error">>)]
                         /\ pc' = [pc EXCEPT ![p] = "except"]
                   /\ UNCHANGED <<db, clock, cache, writer>>
              ELSE /\ err' = [err EXCEPT ![p] =
                        UnexpectedKeyword("ArgoCDManager.create_application",
                            ArgoCDManagerCreateParams, OnboardArgoKeywords)]
                   /\ pc' = [pc EXCEPT ![p] = "except"]
                   /\ UNCHANGED <<calls, db, clock, cache, writer, argocd>>
         [] pc[p] = "publish" ->
              /\ Call(p, "redis.setex")
              /\ \/ /\ cache' = cache_application_state(cache, StrArg(a.name),
                                    ActiveSnapshot(a.cluster))
                    /\ writer' = [k \in DOMAIN cache' |->
                          IF k = StateKey(StrArg(a.name)) THEN p ELSE writer[k]]
                    /\ pc' = [pc EXCEPT ![p] = "finally"]
                    /\ UNCHANGED err
                 \/ /\ err' = [err EXCEPT ![p] = Exc("ConnectionError", <<"redis">>)]
                    /\ pc' = [pc EXCEPT ![p] = "except"]
                    /\ UNCHANGED <<cache, writer>>
              /\ UNCHANGED <<db, clock, argocd>>
    /\ UNCHANGED <<validation, args, result, locks, setter, lapsed>>

\* Mutant: the release sits in the try body, so an exception raised in the
\* except clause leaves the handler without it.
OnboardExceptEscapes(p) ==
    /\ pc[p] = "except"
    /\ Call(p, "redis.setex")
    /\ \/ /\ cache' = cache_application_state(cache, StrArg(args[p].name),
                          FailedSnapshot(err[p]))
          /\ writer' = [k \in DOMAIN cache' |->
                IF k = StateKey(StrArg(args[p].name)) THEN p ELSE writer[k]]
          /\ pc' = [pc EXCEPT ![p] = "finally"]
          /\ UNCHANGED <<err, result>>
       \/ /\ err' = [err EXCEPT ![p] = Exc("ConnectionError", <<"redis">>)]
          /\ pc' = [pc EXCEPT ![p] = "done"]
          /\ result' = [result EXCEPT ![p] =
                Ended("raised", <<>>, <<"Command failed: ", "redis">>)]
          /\ UNCHANGED <<cache, writer>>
    /\ UNCHANGED <<validation, args, locks, setter, lapsed, db, clock, argocd>>

\* main.py:117-123: the failed snapshot, then the exception goes on.  When
\* the cache refuses the write, its exception replaces the first one.
OnboardExcept(p) ==
    /\ pc[p] = "except"
    /\ Call(p, "redis.setex")
    /\ \/ /\ cache' = cache_application_state(cache, StrArg(args[p].name),
                          FailedSnapshot(err[p]))
          /\ writer' = [k \in DOMAIN cache' |->
                IF k = StateKey(StrArg(args[p].name)) THEN p ELSE writer[k]]
          /\ UNCHANGED err
       \/ /\ err' = [err EXCEPT ![p] = Exc("ConnectionError", <<"redis">>)]
          /\ UNCHANGED <<cache, writer>>
    /\ pc' = [pc EXCEPT ![p] = "finally"]
    /\ UNCHANGED <<validation, args, result, locks, setter, lapsed, db, clock, argocd>>

\* Mutant: the except clause lacks its `raise`, so the handler returns.
OnboardFinallySwallows(p) ==
    /\ pc[p] = "finally"
    /\ Call(p, "redis.delete")
    /\ locks' = release_lock(locks, OnboardLockName(args[p].name))
    /\ Dropped
    /\ pc' = [pc EXCEPT ![p] = "done"]
    /\ result' = [result EXCEPT ![p] = Ended("returned", <<>>, <<>>)]
    /\ UNCHANGED <<validation, args, err, cache, writer, lapsed, db, clock, argocd>>

\* main.py:124-125, then the return or the raise.
OnboardFinally(p) ==
    /\ pc[p] = "finally"
    /\ Call(p, "redis.delete")
    /\ locks' = release_lock(locks, OnboardLockName(args[p].name))
    /\ Dropped
    /\ pc' = [pc EXCEPT ![p] = "done"]
    /\ result' = [result EXCEPT ![p] =
          IF err[p] = NoErr
          THEN Ended("returned", <<>>, <<>>)
          ELSE Ended("raised", <<>>, <<"Command failed: ">> \o err[p].msg)]
    /\ UNCHANGED <<validation, args, err, cache, writer, lapsed, db, clock, argocd>>

----------------------------------------------------------------------------
\* InfraKitCLI.status (main.py:127-134)

\* The value status receives as `name`.
NameParam(a) ==
    IF a.kind = "str" THEN StrArg(a.name) ELSE NamespaceArg(a.command, a.name)

\* The methods class DBManager defines (db-manager.py:4-14).
DBManagerMethods == {"__init__", "create_application"}

NoAttribute(class, m) ==
    Exc("AttributeError", <<"'", class, "' object has no attribute '", m, "'">>)

\* Mutant: the read consumes the entry (GETDEL instead of GET).
StatusGetCacheConsumes(p) ==
    /\ pc[p] = "get_cache"
    /\ Call(p, "redis.get")
    /\ IF /\ CacheHit(cache, NameParam(args[p]))
          /\ Truthy(get_cached_state(cache, NameParam(args[p])))
       THEN /\ pc' = [pc EXCEPT ![p] = "done"]
            /\ result' = [result EXCEPT ![p] =
                  Ended("returned",
                        <<get_cached_state(cache, NameParam(args[p]))>>, <<>>)]
            /\ cache' = [k \in DOMAIN cache \ {StateKey(NameParam(args[p]))} |-> cache[k]]
            /\ writer' = [k \in DOMAIN cache' |-> writer[k]]
       ELSE /\ pc' = [pc EXCEPT ![p] = "get_application"]
            /\ UNCHANGED <<result, cache, writer>>
    /\ UNCHANGED <<validation, args, err, locks, setter, lapsed, db, clock, argocd>>

\* main.py:129-133
StatusGetCache(p) ==
    /\ pc[p] = "get_cache"
    /\ Call(p, "redis.get")
    /\ IF /\ CacheHit(cache, NameParam(args[p]))
          /\ Truthy(get_cached_state(cache, NameParam(args[p])))
       THEN /\ pc' = [pc EXCEPT ![p] = "done"]
            /\ result' = [result EXCEPT ![p] =
                  Ended("returned",
                        <<get_cached_state(cache, NameParam(args[p]))>>, <<>>)]
       ELSE /\ pc' = [pc EXCEPT ![p] = "get_application"]
            /\ UNCHANGED result
    /\ UNCHANGED <<validation, args, err, locks, cache, writer, setter, lapsed, db, clock, argocd>>

\* main.py:134: self.db.get_application is looked up on a DBManager, which
\* has no such method; no statement reaches the database.
StatusGetApplication(p) ==
    /\ pc[p] = "get_application"
    /\ ~HasMethod(DBManagerMethods, "get_application")
    /\ err' = [err EXCEPT ![p] = NoAttribute("DBManager", "get_application")]
    /\ pc' = [pc EXCEPT ![p] = "done"]
    /\ result' = [result EXCEPT ![p] =
          Ended("raised", <<>>,
                <<"Command failed: ">> \o NoAttribute("DBManager", "get_application").msg)]
    /\ UNCHANGED <<validation, args, calls, locks, cache, writer, setter, lapsed, db, clock, argocd>>

----------------------------------------------------------------------------
\* InfraKitCLI.sync (main.py:136-149)

\* ttl=60 of the sync lock (main.py:138).
SyncLockTtl == 60

\* f"sync:{name}"
SyncLockName(x) == <<"sync:">> \o Str(x)

SyncInProgress(x) ==
    Exc("RuntimeError", <<"Sync already in progress for ">> \o Str(x))

\* The methods class ArgoCDManager defines (argocd-manager.py:4-28).
ArgoCDManagerMethods == {"__init__", "create_application"}

\* The invocation is inside sync's try block or in its finally clause
\* before the release.
SyncInFlight(p) ==
    /\ args[p].command = "sync"
    /\ pc[p] \in {"sync_application", "sync_finally"}

\* Mutant: the refused invocation does not raise and goes on.
SyncAcquireNoRaise(p) ==
    /\ pc[p] = "sync_acquire"
    /\ LET lock_name == SyncLockName(NameParam(args[p])) IN
         /\ locks' = LocksAfterAcquire(locks, lock_name, SyncLockTtl)
         /\ SetBy(p, lock_name)
         /\ Call(p, "redis.set_nx")
         /\ pc' = [pc EXCEPT ![p] = "sync_application"]
         /\ UNCHANGED <<err, result>>
    /\ UNCHANGED <<validation, args, cache, writer, lapsed, db, clock, argocd>>

\* main.py:138-139: the refused invocation raises.
SyncAcquire(p) ==
    /\ pc[p] = "sync_acquire"
    /\ LET lock_name == SyncLockName(NameParam(args[p])) IN
         /\ locks' = LocksAfterAcquire(locks, lock_name, SyncLockTtl)
         /\ SetBy(p, lock_name)
         /\ Call(p, "redis.set_nx")
         /\ IF acquire_lock(locks, lock_name)
            THEN /\ pc' = [pc EXCEPT ![p] = "sync_application"]
                 /\ UNCHANGED <<err, result>>
            ELSE /\ err' = [err EXCEPT ![p] = SyncInProgress(NameParam(args[p]))]
                 /\ pc' = [pc EXCEPT ![p] = "done"]
                 /\ result' = [result EXCEPT ![p] =
                        Ended("raised", <<>>,
                              <<"Command failed: ">> \o
                                  SyncInProgress(NameParam(args[p])).msg)]
    /\ UNCHANGED <<validation, args, cache, writer, lapsed, db, clock, argocd>>

\* main.py:142: self.argocd.sync_application is looked up on an
\* ArgoCDManager, which has no such method; no request reaches the ArgoCD
\* API and lines 143-147 are not run.
SyncApplication(p) ==
    /\ pc[p] = "sync_application"
    /\ ~HasMethod(ArgoCDManagerMethods, "sync_application")
    /\ err' = [err EXCEPT ![p] = NoAttribute("ArgoCDManager", "sync_application")]
    /\ pc' = [pc EXCEPT ![p] = "sync_finally"]
    /\ UNCHANGED <<validation, args, result, calls, locks, cache, writer, setter,
                   lapsed, db, clock, argocd>>

\* main.py:148-149, then the return or the raise.
SyncFinally(p) ==
    /\ pc[p] = "sync_finally"
    /\ Call(p, "redis.delete")
    /\ locks' = release_lock(locks, SyncLockName(NameParam(args[p])))
    /\ Dropped
    /\ pc' = [pc EXCEPT ![p] = "done"]
    /\ result' = [result EXCEPT ![p] =
          IF err[p] = NoErr
          THEN Ended("returned", <<>>, <<>>)
          ELSE Ended("raised", <<>>, <<"Command failed: ">> \o err[p].msg)]
    /\ UNCHANGED <<validation, args, err, cache, writer, lapsed, db, clock, argocd>>

----------------------------------------------------------------------------
\* Redis expiry

\* Mutant: the key is set without EX and never expires.
ExpireLockNever(k) ==
    /\ k \in {}
    /\ UNCHANGED vars

\* A lock key reaches its ttl.  The invocation that set it is still in its
\* saga when one is in flight for that key.
ExpireLock(k) ==
    /\ k \in DOMAIN locks
    /\ locks' = [j \in DOMAIN locks \ {k} |-> locks[j]]
    /\ Dropped
    /\ lapsed' =
          IF pc[setter[k]] # "done" THEN lapsed \cup {k} ELSE lapsed
    /\ UNCHANGED <<validation, pc, args, err, result, calls, cache, writer, db, clock, argocd>>

\* A cached snapshot reaches its ttl.
ExpireState(k) ==
    /\ k \in DOMAIN cache
    /\ cache' = [j \in DOMAIN cache \ {k} |-> cache[j]]
    /\ writer' = [j \in DOMAIN cache \ {k} |-> writer[j]]
    /\ UNCHANGED <<validation, pc, args, err, result, calls, locks, setter, lapsed, db, clock, argocd>>

----------------------------------------------------------------------------
\* The draft of the tool, cli.py: onboard_application (cli.py:75-93)

\* store_application: INSERT ... ON CONFLICT (name) DO UPDATE.
DraftRow(a, now) ==
    [name |-> a.name, cluster |-> a.cluster, namespace |-> OptNamespace,
     helm_chart |-> OptChart, git_repo |-> OptRepo,
     git_revision |-> OptRevision, git_path |-> OptPath, updated_at |-> now]

store_application(rows, a, now) ==
    {r \in rows : r.name # a.name} \cup {DraftRow(a, now)}

\* create_argocd_application: the manifest it posts.
DraftManifest(a) ==
    [name |-> a.name, server |-> <<"https://kubernetes.default.svc">>,
     namespace |-> OptNamespace, path |-> OptPath, automated |-> TRUE]

SystemExit == Exc("SystemExit", <<"1">>)

\* cli.py:80, 95-113; an error of the database is not caught.
DraftStore(p) ==
    /\ pc[p] = "store"
    /\ Call(p, "db.upsert")
    /\ \/ /\ db' = store_application(db, args[p], clock + 1)
          /\ clock' = clock + 1
          /\ pc' = [pc EXCEPT ![p] = "draft_generate"]
          /\ UNCHANGED <<err, result>>
       \/ /\ err' = [err EXCEPT ![p] = Exc("OperationalError", <<"postgresql">>)]
          /\ pc' = [pc EXCEPT ![p] = "done"]
          /\ result' = [result EXCEPT ![p] = Ended("raised", <<>>, <<>>)]
          /\ UNCHANGED <<db, clock>>
    /\ UNCHANGED <<validation, args, locks, cache, writer, setter, lapsed, argocd>>

\* cli.py:83-88, 60-73: a failed Go service ends the process.
DraftGenerate(p) ==
    /\ pc[p] = "draft_generate"
    /\ Call(p, "go.generate-helm")
    /\ \/ /\ pc' = [pc EXCEPT ![p] = "draft_argocd"]
          /\ UNCHANGED <<err, result>>
       \/ /\ err' = [err EXCEPT ![p] = SystemExit]
          /\ pc' = [pc EXCEPT ![p] = "done"]
          /\ result' = [result EXCEPT ![p] =
                Ended("raised", <<>>, <<"Go service failed: ">>)]
    /\ UNCHANGED <<validation, args, locks, cache, writer, setter, lapsed, db, clock, argocd>>

\* cli.py:91, 115-157: any answer but 200 ends the process.
DraftArgocd(p) ==
    /\ pc[p] = "draft_argocd"
    /\ Call(p, "argocd.post")
    /\ argocd' = Append(argocd, DraftManifest(args[p]))
    /\ pc' = [pc EXCEPT ![p] = "done"]
    /\ \/ /\ result' = [result EXCEPT ![p] = Ended("returned", <<>>, <<>>)]
          /\ UNCHANGED err
       \/ /\ err' = [err EXCEPT ![p] = SystemExit]
          /\ result' = [result EXCEPT ![p] =
                Ended("raised", <<>>, <<"ArgoCD API error: ">>)]
    /\ UNCHANGED <<validation, args, locks, cache, writer, setter, lapsed, db, clock>>

----------------------------------------------------------------------------
Next ==
    \/ \E p \in Procs :
         \/ Start(p)
         \/ OnboardAcquire(p)
         \/ OnboardGenerate(p)
         \/ OnboardValidate(p)
         \/ OnboardPersist(p)
         \/ OnboardExcept(p)
         \/ OnboardFinally(p)
         \/ StatusGetCache(p)
         \/ StatusGetApplication(p)
         \/ SyncAcquire(p)
         \/ SyncApplication(p)
         \/ SyncFinally(p)
         \/ DraftStore(p)
         \/ DraftGenerate(p)
         \/ DraftArgocd(p)
    \/ \E k \in DOMAIN locks : ExpireLock(k)
    \/ \E k \in DOMAIN cache : ExpireState(k)

Spec == Init /\ [][Next]_vars

----------------------------------------------------------------------------
\* Vocabulary of the properties

IsOnboard(p) == args[p].command = "onboard"
IsStatus(p) == args[p].command = "status"

OnboardKey(n) == LockKey(OnboardLockName(n))
AppKey(n) == StateKey(StrArg(n))

\* The invocation has issued this external call.
Issued(p, c) == \E i \in 1..Len(calls[p]) : calls[p][i] = c

\* The onboard invocation was refused the lock and reported "in progress".
Refused(p) ==
    /\ IsOnboard(p)
    /\ pc[p] = "done"
    /\ result[p].log = InProgressLog(args[p].name)

\* The onboard invocation has attempted the acquire / was granted the lock.
Attempted(p) == IsOnboard(p) /\ pc[p] # "acquire"
Acquired(p) == Attempted(p) /\ ~Refused(p)

\* The onboard invocations for name n that hold the lock they acquired.
Sagas(n) == {p \in Procs : InFlight(p) /\ args[p].name = n}

\* The cached snapshot of name n, when there is one.
Snapshot(n) == JsonLoads(cache[AppKey(n)])

\* The text t occurs in the formatted message m.
Contains(m, t) == \E i \in 1..Len(m) : m[i] = t

----------------------------------------------------------------------------
\* C1 (as stated): for every application name at most one onboard
\* invocation is in flight, in every interleaving of concurrent onboard
\* invocations and of lock-TTL expiry.
C1_MutualExclusion ==
    \A n \in Names : Cardinality(Sagas(n)) <= 1

\* C1 (amended): for every application name at most one onboard invocation
\* is in flight, as long as the key lock:onboard:<name> has not expired
\* while the invocation that set it was still in flight.
C1_MutualExclusionUntilLapse ==
    \A n \in Names : OnboardKey(n) \notin lapsed => Cardinality(Sagas(n)) <= 1

\* C1 witness: one invocation is in its saga, holding a lock that never
\* expired, and a second one for the same name has been refused.
C1_Witness ==
    \E p, q \in Procs :
        /\ p # q
        /\ args[p].name = args[q].name
        /\ InFlight(p)
        /\ Refused(q)
        /\ OnboardKey(args[p].name) \notin lapsed
        /\ OnboardKey(args[p].name) \in DOMAIN locks

----------------------------------------------------------------------------
\* C2 (as stated): when two onboard invocations for the same name have
\* attempted to acquire the lock and neither has released it, exactly one
\* of the two acquires returned true.
C2_ExactlyOneAcquires ==
    \A p, q \in Procs :
        ( /\ p # q
          /\ Attempted(p) /\ Attempted(q)
          /\ args[p].name = args[q].name
          /\ ~Issued(p, "redis.delete") /\ ~Issued(q, "redis.delete") )
        => (Acquired(p) # Acquired(q))

\* The acquire step of q, taken while another invocation for the same name
\* is in its saga and the lock key is present (neither released nor
\* expired).
C2_Contended(q) ==
    /\ IsOnboard(q)
    /\ pc[q] = "acquire"
    /\ pc'[q] # "acquire"
    /\ OnboardKey(args[q].name) \in DOMAIN locks
    /\ \E p \in Procs \ {q} : InFlight(p) /\ args[p].name = args[q].name

\* C2 (amended): an onboard invocation that attempts the acquire while
\* another invocation for the same name holds the lock, neither released
\* nor expired, is refused (so exactly one of the two acquires returned
\* true); a refused invocation reports "in progress" and its only external
\* call is that acquire: no Manifest Generator, Record Store or Delivery
\* Controller call.
C2_LoserDoesNothing ==
    /\ [][\A q \in Procs : C2_Contended(q) =>
            /\ pc'[q] = "done"
            /\ result'[q].log = InProgressLog(args[q].name)
            /\ locks' = locks]_vars
    /\ [](\A q \in Procs : Refused(q) => calls[q] = <<"redis.set_nx">>)

\* C2 witness: the refused invocation has ended with its single call while
\* the winner, whose lock is still present, is past generate.
C2_Witness ==
    \E p, q \in Procs :
        /\ p # q
        /\ args[p].name = args[q].name
        /\ Refused(q)
        /\ calls[q] = <<"redis.set_nx">>
        /\ Acquired(p)
        /\ pc[p] \in {"validate", "db", "except", "finally"}
        /\ OnboardKey(args[p].name) \in DOMAIN locks

----------------------------------------------------------------------------
\* C3: every onboard invocation that acquired the lock issues the release
\* of onboard:<name> before it terminates, as its last call, on every exit
\* path; hence the lock of a name is absent whenever no onboard invocation
\* for that name is in flight.
C3_GuaranteedRelease ==
    /\ \A p \in Procs :
         (Acquired(p) /\ pc[p] = "done") =>
            /\ Len(calls[p]) >= 2
            /\ calls[p][Len(calls[p])] = "redis.delete"
    /\ \A n \in Names :
         Sagas(n) = {} => OnboardKey(n) \notin DOMAIN locks

\* C3 witness: an invocation that acquired the lock has terminated through
\* the hardest exit path, a fault while it published the failed snapshot,
\* and its lock is gone.
C3_Witness ==
    \E p \in Procs :
        /\ Acquired(p)
        /\ pc[p] = "done"
        /\ err[p].type = "ConnectionError"
        /\ Issued(p, "redis.delete")
        /\ Sagas(args[p].name) = {}
        /\ OnboardKey(args[p].name) \notin DOMAIN locks

----------------------------------------------------------------------------
\* The validate step of p answered valid = false with the error text e.
Invalid(p, e) ==
    /\ IsOnboard(p)
    /\ validation[p] = <<[valid |-> FALSE, error |-> <<e>>]>>

\* p's except clause has stored its snapshot: the cache accepted the write,
\* so the exception in flight is still the one that was caught.
Stored(p) ==
    /\ IsOnboard(p)
    /\ pc[p] = "except"
    /\ pc'[p] = "finally"
    /\ err'[p] = err[p]

\* The cached snapshot of p's name is the one p wrote.
Wrote(p) ==
    /\ AppKey(args[p].name) \in DOMAIN cache
    /\ writer[AppKey(args[p].name)] = p

\* C4: whenever validate answers valid = false with error text E, the
\* invocation issues no Record Store write and no Delivery Controller
\* registration and goes to its except clause; the snapshot it stores there
\* has status "failed" and an error that contains E, and that is the cached
\* snapshot when the invocation terminates (unless the cache refused the
\* write or another writer or the expiry has replaced it since).
C4_ValidationFailure ==
    /\ [](\A p \in Procs : \A e \in ValidationErrors :
            Invalid(p, e) =>
               /\ pc[p] \in {"except", "finally", "done"}
               /\ ~Issued(p, "db.insert")
               /\ ~Issued(p, "argocd.post")
               /\ pc[p] = "done" => Issued(p, "redis.setex")
               /\ (pc[p] \in {"finally", "done"} /\ Wrote(p)) =>
                    /\ Snapshot(args[p].name).status = "failed"
                    /\ Contains(Snapshot(args[p].name).error, e))
    /\ [][\A p \in Procs : \A e \in ValidationErrors :
            (Invalid(p, e) /\ Stored(p)) =>
               /\ AppKey(args[p].name) \in DOMAIN cache'
               /\ JsonLoads(cache'[AppKey(args[p].name)]).status = "failed"
               /\ Contains(JsonLoads(cache'[AppKey(args[p].name)]).error, e)]_vars

\* C4 witness: an invocation whose validation failed with "bad values" has
\* terminated and the cached snapshot is its failed snapshot.
C4_Witness ==
    \E p \in Procs :
        /\ Invalid(p, "bad values")
        /\ pc[p] = "done"
        /\ Wrote(p)
        /\ Snapshot(args[p].name).status = "failed"
        /\ Contains(Snapshot(args[p].name).error, "bad values")
        /\ calls[p] = <<"redis.set_nx", "go.generate-helm", "go.validate-k8s",
                        "redis.setex", "redis.delete">>

----------------------------------------------------------------------------
\* C5: every onboard invocation that holds the lock and fails (at generate,
\* at validate, at the Record Store step or at the registration) writes a
\* snapshot with status "failed" and the error message to the cache of its
\* name before the failure is propagated, and then propagates it: the
\* write is issued before the release, the invocation is still running when
\* the snapshot is stored, and it ends as raised, never as a success.
C5_FailureCapture ==
    /\ [](\A p \in Procs :
            (Acquired(p) /\ pc[p] = "done" /\ err[p] # NoErr) =>
               /\ result[p].outcome = "raised"
               /\ result[p].exit = 1
               /\ Len(calls[p]) >= 3
               /\ calls[p][Len(calls[p]) - 1] = "redis.setex")
    /\ [](\A p \in Procs :
            (IsOnboard(p) /\ pc[p] \in {"finally", "done"} /\ Wrote(p)) =>
               Snapshot(args[p].name) =
                  [status |-> "failed", error |-> err[p].msg])
    /\ [][\A p \in Procs :
            Stored(p) =>
               /\ err[p] # NoErr
               /\ result'[p].outcome = "running"
               /\ AppKey(args[p].name) \in DOMAIN cache'
               /\ JsonLoads(cache'[AppKey(args[p].name)]) =
                     [status |-> "failed", error |-> err[p].msg]]_vars

\* C5 witness: an invocation that failed at the Record Store step has
\* ended as raised and the cached snapshot carries its error message.
C5_Witness ==
    \E p \in Procs :
        /\ Acquired(p)
        /\ pc[p] = "done"
        /\ err[p].type = "TypeError"
        /\ result[p].outcome = "raised"
        /\ Wrote(p)
        /\ Snapshot(args[p].name) = [status |-> "failed", error |-> err[p].msg]

----------------------------------------------------------------------------
\* The rows of the Record Store for name n, and the registrations the
\* Delivery Controller received for n with the given path.
Rows(n) == {r \in db : r.name = n}
Registrations(n, path) ==
    {i \in 1..Len(argocd) : argocd[i].name = n /\ argocd[i].path = path}

\* The validate step of p answered valid = true (so generate succeeded).
Valid(p) ==
    /\ IsOnboard(p)
    /\ validation[p] = <<[valid |-> TRUE, error |-> <<>>]>>

\* C6 (not met by the code): when generate succeeds and validate answers
\* valid = true, a terminated onboard invocation has returned, the Record
\* Store holds a record of its name with its cluster, the Delivery
\* Controller has received a registration of its name with its path, which
\* the invocation sent once, and the snapshot it cached is "active" with
\* its cluster.
C6_SuccessfulOnboarding ==
    \A p \in Procs :
        (Valid(p) /\ pc[p] = "done") =>
           /\ result[p].outcome = "returned"
           /\ \E r \in Rows(args[p].name) : r.cluster = args[p].cluster
           /\ Registrations(args[p].name, OptPath) # {}
           /\ Cardinality({i \in 1..Len(calls[p]) : calls[p][i] = "argocd.post"}) = 1
           /\ Wrote(p) =>
                /\ Snapshot(args[p].name).status = "active"
                /\ Snapshot(args[p].name).cluster = args[p].cluster

----------------------------------------------------------------------------
\* The onboard invocation has executed its Record Store step (main.py:91).
PastStoreStep(p) ==
    /\ Valid(p)
    /\ pc[p] \in {"argocd", "publish", "except", "finally", "done"}

\* C7 (not met by the code): once an onboard invocation has executed its
\* Record Store step, the Record Store holds exactly one record of its
\* name, with the cluster of an invocation that reached that step, and the
\* step has not failed.
C7_UpsertOnReonboarding ==
    \A p \in Procs :
        PastStoreStep(p) =>
           /\ Cardinality(Rows(args[p].name)) = 1
           /\ \A r \in Rows(args[p].name) :
                \E q \in Procs :
                   /\ args[q].name = r.name
                   /\ args[q].cluster = r.cluster
                   /\ PastStoreStep(q) \/ Issued(q, "db.upsert")
           /\ err[p].type \notin {"TypeError", "UniqueViolation"}

----------------------------------------------------------------------------
\* A step of the status invocation p.
StatusStep(p) ==
    /\ IsStatus(p)
    /\ pc'[p] # pc[p]

\* C8: a status invocation leaves every lock entry, every cached snapshot
\* and every Record Store record as it was, in every step it takes, and it
\* issues no call but the read of the cache: it never acquires or releases
\* a lock.
C8_StatusPureRead ==
    /\ [][\A p \in Procs :
            StatusStep(p) => (locks' = locks /\ cache' = cache /\ db' = db)]_vars
    /\ [](\A p \in Procs :
            IsStatus(p) =>
               \A i \in 1..Len(calls[p]) : calls[p][i] = "redis.get")

\* C8 witness: a status invocation has returned the cached snapshot of a
\* name while an onboard saga holds a lock, and both entries are in place.
C8_Witness ==
    \E p \in Procs :
        /\ IsStatus(p)
        /\ pc[p] = "done"
        /\ result[p].outcome = "returned"
        /\ AppKey(args[p].name) \in DOMAIN cache
        /\ result[p].value = <<Snapshot(args[p].name)>>
        /\ \E q \in Procs : InFlight(q) /\ OnboardKey(args[q].name) \in DOMAIN locks

----------------------------------------------------------------------------
\* C9 (not met by the code): a status invocation that reads the cache while
\* a live snapshot exists for its name returns that snapshot, and one that
\* finds none returns a result read from the Record Store.
C9_CacheThenRecord ==
    /\ [][\A p \in Procs :
            ( /\ StatusStep(p)
              /\ pc[p] = "get_cache"
              /\ AppKey(args[p].name) \in DOMAIN cache ) =>
                 /\ pc'[p] = "done"
                 /\ result'[p].outcome = "returned"
                 /\ result'[p].value = <<Snapshot(args[p].name)>>]_vars
    /\ [][\A p \in Procs :
            (StatusStep(p) /\ pc[p] = "get_application") =>
                 /\ result'[p].outcome = "returned"
                 /\ Issued(p, "db.select")']_vars

----------------------------------------------------------------------------
\* C10 (not met by the code): a status invocation that finds neither a
\* cached snapshot nor a record of its name returns a result (not None)
\* and does not end with an exception.
C10_UnknownApplication ==
    [][\A p \in Procs :
         ( /\ StatusStep(p)
           /\ pc[p] = "get_application"
           /\ AppKey(args[p].name) \notin DOMAIN cache
           /\ Rows(args[p].name) = {} ) =>
              /\ result'[p].outcome = "returned"
              /\ result'[p].value # <<>>
              /\ result'[p].exit = 0]_vars

----------------------------------------------------------------------------
\* Vocabulary of the properties of sync

IsSync(p) == args[p].command = "sync"
SyncKey(p) == LockKey(SyncLockName(NameParam(args[p])))

\* The sync invocation was refused the lock / was granted it.
SyncRefused(p) ==
    /\ IsSync(p)
    /\ pc[p] = "done"
    /\ err[p] = SyncInProgress(NameParam(args[p]))
SyncGranted(p) == IsSync(p) /\ pc[p] # "sync_acquire" /\ ~SyncRefused(p)

\* The sync invocation leaves the statement that calls the Delivery
\* Controller.
SyncTriggerStep(p) ==
    /\ IsSync(p)
    /\ pc[p] = "sync_application"
    /\ pc'[p] # pc[p]

\* The exception comes from a collaborator that failed, not from the tool.
SystemFault(e) == e.type \in {"HTTPError", "ConnectionError"}

----------------------------------------------------------------------------
\* C11 (not met by the code): a sync invocation for a name that has a
\* record, holding the sync lock, sends exactly one sync trigger to the
\* Delivery Controller, and unless a collaborator fails it then replaces the
\* cached snapshot of the name with the 'syncing' snapshot.
C11_SyncTriggersThenPublishes ==
    /\ [][\A p \in Procs :
            (SyncTriggerStep(p) /\ Rows(args[p].name) # {}) =>
                calls'[p] = Append(calls[p], "argocd.sync")]_vars
    /\ [](\A p \in Procs :
            ( /\ SyncGranted(p)
              /\ pc[p] = "done"
              /\ Rows(args[p].name) # {}
              /\ ~SystemFault(err[p]) ) =>
                 /\ calls[p] = <<"redis.set_nx", "argocd.sync", "redis.setex",
                                 "redis.delete">>
                 /\ result[p].exit = 0)

----------------------------------------------------------------------------
\* The sync invocation takes the step that asks for the lock.
SyncAcquireStep(p) ==
    /\ IsSync(p)
    /\ pc[p] = "sync_acquire"
    /\ pc'[p] # pc[p]

\* C12: a sync invocation that asks for the key lock:sync:<name> while the
\* key is held ends at once with the error 'Sync already in progress',
\* having called nothing but the lock and leaving the lock entries, the
\* cache and the Delivery Controller as they were; a sync invocation that
\* was granted the lock has issued the release when it ends, whatever made
\* it end, and its release leaves the key absent.
C12_SyncLocking ==
    /\ [][\A p \in Procs :
            (SyncAcquireStep(p) /\ SyncKey(p) \in DOMAIN locks) =>
                /\ pc'[p] = "done"
                /\ err'[p] = SyncInProgress(NameParam(args[p]))
                /\ result'[p].outcome = "raised"
                /\ Contains(result'[p].log, "Sync already in progress for ")
                /\ calls'[p] = <<"redis.set_nx">>
                /\ locks' = locks /\ cache' = cache /\ argocd' = argocd]_vars
    /\ [][\A p \in Procs :
            (IsSync(p) /\ pc[p] = "sync_finally" /\ pc'[p] # pc[p]) =>
                /\ pc'[p] = "done"
                /\ SyncKey(p) \notin DOMAIN locks']_vars
    /\ [](\A p \in Procs :
            (SyncGranted(p) /\ pc[p] = "done") =>
                calls[p][Len(calls[p])] = "redis.delete")

\* C12 witness: of two sync invocations for one name the first was granted
\* the lock, failed in its try block and released, and the second, which
\* asked while the first held the lock, was refused.
C12_Witness ==
    \E p, q \in Procs :
        /\ SyncRefused(p)
        /\ calls[p] = <<"redis.set_nx">>
        /\ SyncGranted(q)
        /\ SyncKey(q) = SyncKey(p)
        /\ pc[q] = "done"
        /\ err[q] # NoErr
        /\ Issued(q, "redis.delete")
        /\ SyncKey(q) \notin DOMAIN locks
        /\ SyncKey(q) \notin lapsed

----------------------------------------------------------------------------
\* Vocabulary of the lock, for onboard and sync alike

\* The lock name, key and ttl an invocation asks for.
LockNameOf(p) ==
    IF IsSync(p) THEN SyncLockName(NameParam(args[p]))
    ELSE OnboardLockName(args[p].name)
HeldKey(p) == LockKey(LockNameOf(p))
TtlOf(p) == IF IsSync(p) THEN SyncLockTtl ELSE LockTtl

\* The invocation takes the step that asks for its lock.
AcquireStep(p) ==
    /\ pc[p] \in {"acquire", "sync_acquire"}
    /\ pc'[p] # pc[p]

\* The invocation is past a granted acquire and has not released yet.
Holding(p) == InFlight(p) \/ SyncInFlight(p)

\* C13: an acquire is granted exactly when its key is absent at the moment
\* it is asked, and then sets the key with its ttl; while the key is present
\* an acquire is refused and changes no lock entry, so that two acquires
\* with no release or expiry between them yield true, then false; whoever
\* set a key and whatever happened to it before, an acquire that finds it
\* absent (released or expired) is granted.
C13_LockPrimitive ==
    [][\A p \in Procs :
         AcquireStep(p) =>
            /\ Holding(p)' <=> HeldKey(p) \notin DOMAIN locks
            /\ HeldKey(p) \in DOMAIN locks'
            /\ HeldKey(p) \in DOMAIN locks => locks' = locks /\ setter' = setter
            /\ HeldKey(p) \notin DOMAIN locks =>
                  /\ locks'[HeldKey(p)] = TtlOf(p)
                  /\ setter'[HeldKey(p)] = p
                  /\ \A k \in DOMAIN locks : locks'[k] = locks[k]]_vars

\* C13 witness: an invocation was granted a key and is still running, the
\* key expired without a release, and the next acquire of the key, by a
\* second invocation, was granted: the key is present again, set by the
\* second one.
C13_Witness ==
    \E p, q \in Procs :
        /\ p # q
        /\ HeldKey(p) = HeldKey(q)
        /\ Holding(p) /\ Holding(q)
        /\ ~Issued(p, "redis.delete")
        /\ HeldKey(p) \in lapsed
        /\ HeldKey(p) \in DOMAIN locks
        /\ setter[HeldKey(p)] = q
        /\ locks[HeldKey(p)] = TtlOf(q)

----------------------------------------------------------------------------
\* The invocation takes the step that releases its lock.
ReleaseStep(p) ==
    /\ pc[p] \in {"finally", "sync_finally"}
    /\ pc'[p] # pc[p]

\* The entry of the invocation's key is the one the invocation set.
Owns(p) == HeldKey(p) \in DOMAIN locks /\ setter[HeldKey(p)] = p

\* C14 (as stated): a release issued by an invocation whose own lock entry
\* is no longer there (it expired before the release) leaves every lock
\* entry unchanged, whatever other invocations did with the key meanwhile.
C14_ReleaseNoOp ==
    [][\A p \in Procs :
         (ReleaseStep(p) /\ ~Owns(p)) => locks' = locks]_vars

\* C14 (amended): a release raises no error and deletes the key whoever set
\* it, leaving the entries of all other keys unchanged; it leaves every lock
\* entry unchanged exactly when the key is absent at the moment of the
\* release.
C14_ReleaseUnconditional ==
    [][\A p \in Procs :
         ReleaseStep(p) =>
            /\ err'[p] = err[p]
            /\ DOMAIN locks' = DOMAIN locks \ {HeldKey(p)}
            /\ \A k \in DOMAIN locks' : locks'[k] = locks[k]
            /\ locks' = locks <=> HeldKey(p) \notin DOMAIN locks]_vars

\* C14 witness: an invocation has released a key that had expired under it
\* and that no other invocation has asked for: the release met no entry.
C14_Witness ==
    \E p \in Procs :
        /\ pc[p] = "done"
        /\ Issued(p, "redis.delete")
        /\ HeldKey(p) \in lapsed
        /\ HeldKey(p) \notin DOMAIN locks
        /\ \A q \in Procs \ {p} :
              \/ pc[q] \in {"idle", "acquire", "sync_acquire"}
              \/ args[q].command \notin {"onboard", "sync"}
              \/ HeldKey(q) # HeldKey(p)

----------------------------------------------------------------------------
\* Liveness of the lock

\* Every lock key an invocation can ask for.
AllLockKeys ==
    {LockKey(OnboardLockName(n)) : n \in Names}
    \cup {LockKey(SyncLockName(NamespaceArg("sync", n))) : n \in Names}

\* Redis deletes a key set with EX once its ttl has run out: no key stays
\* for ever with its expiry pending.  Nothing is assumed of the
\* invocations, each of which may stop for ever wherever it is.
LiveSpec == Spec /\ \A k \in AllLockKeys : WF_vars(ExpireLock(k))

\* C15: when an invocation holds the lock entry it set, then, even if the
\* invocation never takes another step, the key is eventually absent; and
\* an acquire that asks for a key after it expired, finding it absent, is
\* granted.
C15_TtlFailsafe ==
    /\ \A p \in Procs :
          (Holding(p) /\ Owns(p)) ~> (HeldKey(p) \notin DOMAIN locks)
    /\ [][\A q \in Procs :
            ( /\ AcquireStep(q)
              /\ HeldKey(q) \in lapsed
              /\ HeldKey(q) \notin DOMAIN locks ) => Holding(q)']_vars

\* C15 witness: an invocation stopped right after it was granted the lock
\* (it has issued no other call), its key expired, and a later acquire of
\* the key by a second invocation was granted.
C15_Witness ==
    \E p, q \in Procs :
        /\ p # q
        /\ Holding(p)
        /\ calls[p] = <<"redis.set_nx">>
        /\ HeldKey(p) \in lapsed
        /\ HeldKey(q) = HeldKey(p)
        /\ Holding(q)
        /\ Owns(q)

----------------------------------------------------------------------------
\* C16 (not met by the code): an onboard or sync invocation that was refused
\* its lock or ended with an exception exits with a non-zero status, and one
\* that exits with status zero was granted its lock and has run its saga to
\* the release without an exception.
C16_NonZeroExitOnFailure ==
    \A p \in Procs :
        ((IsOnboard(p) \/ IsSync(p)) /\ pc[p] = "done") =>
            /\ (Refused(p) \/ SyncRefused(p) \/ err[p] # NoErr) =>
                  result[p].exit # 0
            /\ result[p].exit = 0 =>
                  /\ err[p] = NoErr
                  /\ Issued(p, "redis.delete")

----------------------------------------------------------------------------
\* The invocation onboards an application, by either variant of the tool.
Onboards(p) == args[p].command \in {"onboard", "onboard_application"}

\* In the calls of the invocation every call b comes after a call a.
Before(p, a, b) ==
    \A j \in 1..Len(calls[p]) :
        calls[p][j] = b => \E i \in 1..(j - 1) : calls[p][i] = a

\* C17 (not met by the code): in one onboard invocation validate-k8s is
\* called only after generate-helm, the Record Store only after
\* validate-k8s, which answered valid, and the Delivery Controller only
\* after the Record Store stored the record; once a step has failed no
\* further step of the saga is called.
C17_SagaStepOrder ==
    \A p \in Procs :
        Onboards(p) =>
            /\ Before(p, "go.generate-helm", "go.validate-k8s")
            /\ \A s \in {"db.insert", "db.upsert"} :
                  /\ Before(p, "go.validate-k8s", s)
                  /\ Issued(p, s) => (validation[p] # <<>> /\ validation[p][1].valid)
            /\ Issued(p, "argocd.post") =>
                  /\ Issued(p, "db.insert") \/ Issued(p, "db.upsert")
                  /\ Rows(args[p].name) # {}
            /\ err[p] # NoErr => pc[p] \in {"except", "finally", "done"}

----------------------------------------------------------------------------
\* The exception is an error the Record Store answered a statement with.
RecordStoreFault(e) == e.type \in {"UniqueViolation", "OperationalError"}

----------------------------------------------------------------------------
\* An onboard saga for the name of p is in flight.
BesideOnboard(p) ==
    \E q \in Procs : InFlight(q) /\ args[q].name = args[p].name

\* C19 (not met by the code): an acquire is refused only on account of an
\* entry set by an invocation of the same command, so that onboard and sync
\* for one name never refuse each other; and a sync in flight beside an
\* onboard saga for its name gets past its Delivery Controller call, unless
\* a collaborator fails, to the statement that overwrites the cached
\* snapshot.
C19_OnboardAndSyncOverlap ==
    /\ [][\A p \in Procs :
            (AcquireStep(p) /\ ~Holding(p)') =>
                /\ HeldKey(p) \in DOMAIN locks
                /\ args[setter[HeldKey(p)]].command = args[p].command]_vars
    /\ [][\A p \in Procs :
            (SyncTriggerStep(p) /\ BesideOnboard(p)) =>
                (err'[p] = NoErr \/ SystemFault(err'[p]))]_vars

----------------------------------------------------------------------------
\* C20: an onboard invocation that asks for its lock while the key is
\* present ends in that step, leaving every lock entry (the holder's
\* included) and every cached snapshot exactly as they were; when it has
\* ended it has written no snapshot and issued no release.
C20_RefusedOnboardTouchesNothing ==
    /\ [][\A p \in Procs :
            ( /\ IsOnboard(p)
              /\ AcquireStep(p)
              /\ HeldKey(p) \in DOMAIN locks ) =>
                 /\ pc'[p] = "done"
                 /\ locks' = locks /\ setter' = setter
                 /\ cache' = cache /\ writer' = writer]_vars
    /\ [](\A p \in Procs :
            Refused(p) =>
               /\ ~Issued(p, "redis.setex")
               /\ ~Issued(p, "redis.delete"))

\* C20 witness: an onboard invocation was refused while the holder of the
\* lock, which had already cached its 'failed' snapshot, was about to
\* release: the holder's entry and its snapshot are in place.
C20_Witness ==
    \E p, q \in Procs :
        /\ Refused(q)
        /\ args[p].name = args[q].name
        /\ pc[p] = "finally"
        /\ Owns(p)
        /\ HeldKey(p) \notin lapsed
        /\ Wrote(p)
        /\ Snapshot(args[p].name).status = "failed"

====
